---- MODULE Spec2Model ----
(***************************************************************************)
(* slog-stdlog: the two-way adapter between the `log` facade and `slog`.   *)
(*                                                                         *)
(*   log  -> slog : struct Logger (impl log::Log), init, init_with_level   *)
(*   slog -> log  : struct StdLog (impl slog::Drain), LazyLogString, KSV   *)
(*                                                                         *)
(* The model runs a few threads.  Each thread registers the backend,       *)
(* issues `log` macro calls, issues `slog` events on a logger, or changes  *)
(* its logging scope.  A logging call is a synchronous call chain on the   *)
(* thread, kept as a stack of frames.                                      *)
(***************************************************************************)
EXTENDS Integers, Sequences, FiniteSets, TLC

\* ------------------------------------------------------------------ bounds
MaxDepth == 4      \* call-stack frames a thread has before it overflows
MaxInits == 2      \* init / init_with_level calls in one run
MaxFormats == 2    \* times a terminal drain formats the message of a record

\* the threads that register; LogThreads also log
Threads == {"t1", "t2"}
LogThreads == {"t1"}

\* ------------------------------------------------------------------ levels
\* log::LogLevel (Error = 1 .. Trace) and log::LogLevelFilter (Off = 0 ..)
LogLevels == {"Error", "Warn", "Info", "Debug", "Trace"}
LogLevelFilters == LogLevels \cup {"Off"}
\* slog::Level
SlogLevels == {"Critical", "Error", "Warning", "Info", "Debug", "Trace"}

\* the discriminant of a log::LogLevel / log::LogLevelFilter
LogOrd(l) ==
  CASE l = "Off" -> 0
    [] l = "Error" -> 1
    [] l = "Warn" -> 2
    [] l = "Info" -> 3
    [] l = "Debug" -> 4
    [] l = "Trace" -> 5

\* slog::Level::as_usize
SlogOrd(l) ==
  CASE l = "Critical" -> 0
    [] l = "Error" -> 1
    [] l = "Warning" -> 2
    [] l = "Info" -> 3
    [] l = "Debug" -> 4
    [] l = "Trace" -> 5

\* fn log_to_slog_level(level: log::LogLevel) -> Level
log_to_slog_level(level) ==
  CASE level = "Trace" -> "Trace"
    [] level = "Debug" -> "Debug"
    [] level = "Info" -> "Info"
    [] level = "Warn" -> "Warning"
    [] level = "Error" -> "Error"

\* the match of StdLog::log with Critical sent to Warn
slog_to_log_level_shifted(level) ==
  CASE level = "Critical" -> "Warn"
    [] level = "Error" -> "Error"
    [] level = "Warning" -> "Warn"
    [] level = "Info" -> "Info"
    [] level = "Debug" -> "Debug"
    [] level = "Trace" -> "Trace"

\* the `match info.level()` at the head of StdLog::log
slog_to_log_level(level) ==
  CASE level \in {"Critical", "Error"} -> "Error"
    [] level = "Warning" -> "Warn"
    [] level = "Info" -> "Info"
    [] level = "Debug" -> "Debug"
    [] level = "Trace" -> "Trace"

\* the levels init_with_level is called with
RegLevels == {"Error", "Info"}

\* log::LogLevel::max(), the level init() registers with
LogLevelMax == "Trace"

\* level.to_log_level_filter()
to_log_level_filter(level) == level

\* ------------------------------------------------------------------ data
\* slog loggers of the program and the drain each one ends in.  L0 is the
\* logger slog_scope hands out when no scope is active.
Loggers == {"L0", "L1", "L2"}
Drain(lg) ==
  CASE lg = "L0" -> "Discard"
    [] lg = "L1" -> "Capture"
    [] lg = "L2" -> "StdLog"

Pair(k, v, ok) == [k |-> k, v |-> v, ok |-> ok]

\* the OwnedKVList of a logger, as the pairs OwnedKVList::serialize visits
LoggerValues(lg) ==
  IF lg = "L2" THEN <<Pair("a", "1", TRUE), Pair("b", "2", TRUE)>> ELSE <<>>

\* key-value groups given at a slog call site; a pair with ok = FALSE is a
\* value whose Value::serialize returns an error
CallSiteKVs ==
  { <<>>,
    <<Pair("c", "3", TRUE)>>,
    <<Pair("reason", "idle, x: y", TRUE)>>,
    <<Pair("c", "3", TRUE), Pair("bad", "", FALSE), Pair("d", "4", TRUE)>> }

Tags == {"", "svc"}
Targets == {"pkg::mod", "svc"}
ModulePath == "pkg::mod"
FilePath == "main.rs"
LineNo == 7

\* fmt::Arguments: the text the template and its arguments render to, and
\* the LazyLogString wrappers around it (innermost first)
PlainArgs(text) == [text |-> text, layers |-> <<>>]

\* ------------------------------------------------------------------ KSV
\* KSV::emit_arguments: write!(self.io, ", {}: {}", key, val)
emit_arguments(io, key, val) == io \o ", " \o key \o ": " \o val

\* KV::serialize of a group into a KSV: one emit_arguments per pair, in the
\* order met, stopping at the first pair whose value fails
RECURSIVE serialize(_, _)
serialize(ser, pairs) ==
  IF ~ser.ok \/ pairs = <<>> THEN ser
  ELSE IF ~Head(pairs).ok THEN [io |-> ser.io, ok |-> FALSE]
  ELSE serialize([io |-> emit_arguments(ser.io, Head(pairs).k, Head(pairs).v),
                  ok |-> TRUE], Tail(pairs))

\* the closure with the record's own pairs serialized first
serialize_all_kv_first(logger_values, kv) ==
  serialize(serialize([io |-> "", ok |-> TRUE], kv), logger_values)

\* the closure of LazyLogString::fmt: logger_values first, then the record's
\* own key-value pairs, into the same KSV
serialize_all(logger_values, kv) ==
  serialize(serialize([io |-> "", ok |-> TRUE], logger_values), kv)

\* String::from_utf8_lossy on the bytes of the KSV buffer.  The buffer only
\* ever holds what write! put there, so no byte sequence is replaced.
from_utf8_lossy(bytes) == IF bytes = "<FF>" THEN "<U+FFFD>" ELSE bytes

\* impl Display for LazyLogString: what the formatter received (text) and
\* the fmt::Result (ok), given what self.info.msg() rendered to
LazyLogString_fmt(msg, logger_values, kv) ==
  IF ~msg.ok THEN msg
  ELSE LET ser == serialize_all(logger_values, kv)
       IN IF ~ser.ok THEN [text |-> msg.text, ok |-> FALSE]
          ELSE [text |-> msg.text \o from_utf8_lossy(ser.io), ok |-> TRUE]

\* formatting a fmt::Arguments: the template text, then each LazyLogString
\* wrapped around it
RECURSIVE RenderLayers(_, _)
RenderLayers(text, layers) ==
  IF layers = <<>> THEN [text |-> text, ok |-> TRUE]
  ELSE LET n == Len(layers)
       IN LazyLogString_fmt(RenderLayers(text, SubSeq(layers, 1, n - 1)),
                            layers[n].lv, layers[n].kv)
Render(args) == RenderLayers(args.text, args.layers)

\* LazyLogString::fmt invocations one formatting of args makes
LazyFmtCalls(args) == Len(args.layers)

\* ------------------------------------------------------------------ log -> slog
\* Logger::enabled
enabled(metadata) == TRUE

\* Logger::log with the module path used as the tag and the line as column
LoggerRecord_module_tag(r) ==
  [ level |-> log_to_slog_level(r.level),
    tag |-> r.loc.module,
    loc |-> [ file |-> r.loc.file, line |-> r.loc.line, column |-> r.loc.line,
              function |-> "", module |-> r.loc.module ],
    msg |-> r.args,
    kv |-> <<>> ]

\* Logger::log: the slog::Record built from a log::LogRecord
LoggerRecord(r) ==
  [ level |-> log_to_slog_level(r.level),
    tag |-> r.target,
    loc |-> [ file |-> r.loc.file, line |-> r.loc.line, column |-> 0,
              function |-> "", module |-> r.loc.module ],
    msg |-> r.args,
    kv |-> <<>> ]

\* Logger::log handing the drain's error on to its caller
LoggerLogResult_propagate(drainResult) ==
  IF drainResult = "Err" THEN "Err" ELSE "unit"

\* Logger::log returns (): the result of logger.log(..) is not looked at
LoggerLogResult(drainResult) == "unit"

\* ------------------------------------------------------------------ slog -> log
\* StdLog::log without the fallback to the module path
StdLogTarget_tag_only(info) == info.tag

\* StdLog::log: the target of the emitted record
StdLogTarget(info) == IF info.tag = "" THEN info.loc.module ELSE info.tag

\* StdLog::log: LazyLogString::new(info, logger_values) under format_args!
LazyLogString_new(info, logger_values) ==
  [ text |-> info.msg.text,
    layers |-> Append(info.msg.layers, [lv |-> logger_values, kv |-> info.kv]) ]

\* StdLog::log: the arguments of its log::__log call
StdLogRecord(info, logger_values) ==
  [ level |-> slog_to_log_level(info.level),
    target |-> StdLogTarget(info),
    loc |-> [ module |-> info.loc.module, file |-> info.loc.file,
              line |-> info.loc.line ],
    args |-> LazyLogString_new(info, logger_values) ]

\* StdLog::log building the flattened string eagerly, before log::__log
StdLogFormats_eager(info, logger_values) == 1

\* StdLog::log: how many times it formats the LazyLogString itself
StdLogFormats(info, logger_values) == 0

\* StdLog::log: its return value, Ok(())
StdLogResult(info, logger_values) == "Ok"

\* ------------------------------------------------------------------ state
VARIABLES
  LOG_STATE,                 \* log: UNINITIALIZED / INITIALIZING / INITIALIZED
  LOGGER,                \* log: the installed backend, "none" or "Logger"
  MAX_LOG_LEVEL_FILTER,  \* log: the minimum-severity threshold
  loggerWrites,          \* writes made to LOGGER
  regCalls,              \* the init / init_with_level calls, in call order
  pc,                    \* where each thread is inside init_with_level
  running,               \* the call of regCalls each thread is inside, or 0
  scope,                 \* the logger slog_scope reports to each thread
  stack,                 \* each thread's call chain, innermost frame last
  call,                  \* each thread's latest `log` macro call
  cap,                   \* what the Capture drain got in the thread's call
  ret,                   \* the value of the thread's latest return
  fmtRuns,               \* LazyLogString::fmt runs in the thread's call
  overflow               \* the process died of stack exhaustion

vars == << LOG_STATE, LOGGER, MAX_LOG_LEVEL_FILTER, loggerWrites, regCalls, pc,
           running, scope, stack, call, cap, ret, fmtRuns, overflow >>

logVars == << LOG_STATE, LOGGER, MAX_LOG_LEVEL_FILTER, loggerWrites, regCalls, pc,
             running >>

Init ==
  /\ LOG_STATE = "UNINITIALIZED"
  /\ LOGGER = "none"
  /\ MAX_LOG_LEVEL_FILTER = "Off"
  /\ loggerWrites = 0
  /\ regCalls = <<>>
  /\ pc = [t \in Threads |-> "idle"]
  /\ running = [t \in Threads |-> 0]
  /\ scope = [t \in LogThreads |-> "L0"]
  /\ stack = [t \in LogThreads |-> <<>>]
  /\ call = [t \in LogThreads |-> <<>>]
  /\ cap = [t \in LogThreads |-> <<>>]
  /\ ret = [t \in LogThreads |-> <<>>]
  /\ fmtRuns = [t \in LogThreads |-> 0]
  /\ overflow = FALSE

Idle(t) == ~overflow /\ pc[t] = "idle" /\ (t \in LogThreads => stack[t] = <<>>)

\* ------------------------------------------------------------------ registration
\* set_logger with the threshold stored before the slot is claimed: a losing
\* call overwrites the winner's threshold
set_logger_threshold_first(t, level) ==
  /\ Idle(t)
  /\ Len(regCalls) < MaxInits
  /\ MAX_LOG_LEVEL_FILTER' = level
  /\ IF LOG_STATE = "UNINITIALIZED"
     THEN /\ LOG_STATE' = "INITIALIZING"
          /\ pc' = [pc EXCEPT ![t] = "closure"]
          /\ running' = [running EXCEPT ![t] = Len(regCalls) + 1]
          /\ regCalls' = Append(regCalls,
               [level |-> level, res |-> "pending"])
     ELSE /\ regCalls' = Append(regCalls,
               [level |-> level, res |-> "Err"])
          /\ UNCHANGED << LOG_STATE, pc, running >>
  /\ UNCHANGED << LOGGER, loggerWrites, scope, stack, call, cap, ret, fmtRuns,
                  overflow >>

\* set_logger with a test of LOG_STATE in place of the compare-and-swap: a
\* call that arrives while another is still initializing goes ahead too
set_logger_racy(t, level) ==
  /\ Idle(t)
  /\ Len(regCalls) < MaxInits
  /\ IF LOG_STATE # "INITIALIZED"
     THEN /\ LOG_STATE' = "INITIALIZING"
          /\ pc' = [pc EXCEPT ![t] = "closure"]
          /\ running' = [running EXCEPT ![t] = Len(regCalls) + 1]
          /\ regCalls' = Append(regCalls,
               [level |-> level, res |-> "pending"])
     ELSE /\ regCalls' = Append(regCalls,
               [level |-> level, res |-> "Err"])
          /\ UNCHANGED << LOG_STATE, pc, running >>
  /\ UNCHANGED << LOGGER, MAX_LOG_LEVEL_FILTER, loggerWrites, scope, stack,
                  call, cap, ret, fmtRuns, overflow >>

\* log::set_logger, entered from init_with_level: the compare-and-swap of
\* LOG_STATE.  The loser returns Err(SetLoggerError) without running the closure.
set_logger(t, level) ==
  /\ Idle(t)
  /\ Len(regCalls) < MaxInits
  /\ IF LOG_STATE = "UNINITIALIZED"
     THEN /\ LOG_STATE' = "INITIALIZING"
          /\ pc' = [pc EXCEPT ![t] = "closure"]
          /\ running' = [running EXCEPT ![t] = Len(regCalls) + 1]
          /\ regCalls' = Append(regCalls,
               [level |-> level, res |-> "pending"])
     ELSE /\ regCalls' = Append(regCalls,
               [level |-> level, res |-> "Err"])
          /\ UNCHANGED << LOG_STATE, pc, running >>
  /\ UNCHANGED << LOGGER, MAX_LOG_LEVEL_FILTER, loggerWrites, scope, stack,
                  call, cap, ret, fmtRuns, overflow >>

\* pub fn init_with_level(level)
init_with_level(t, level) == set_logger(t, level)

\* pub fn init()
init(t) == set_logger(t, LogLevelMax)

PendingCall(t) == running[t]

\* the closure of init_with_level: max_log_level.set(level.to_log_level_filter())
SetMaxLevel(t) ==
  /\ ~overflow
  /\ pc[t] = "closure"
  /\ MAX_LOG_LEVEL_FILTER' = to_log_level_filter(regCalls[PendingCall(t)].level)
  /\ pc' = [pc EXCEPT ![t] = "install"]
  /\ UNCHANGED << LOG_STATE, LOGGER, loggerWrites, regCalls, running, scope,
                  stack, call, cap, ret, fmtRuns, overflow >>

\* the closure returns Box::new(Logger); set_logger stores it and Ok(())
Install(t) ==
  /\ ~overflow
  /\ pc[t] = "install"
  /\ LOGGER' = "Logger"
  /\ loggerWrites' = loggerWrites + 1
  /\ LOG_STATE' = "INITIALIZED"
  /\ regCalls' = [regCalls EXCEPT ![PendingCall(t)].res = "Ok"]
  /\ pc' = [pc EXCEPT ![t] = "idle"]
  /\ running' = [running EXCEPT ![t] = 0]
  /\ UNCHANGED << MAX_LOG_LEVEL_FILTER, scope, stack, call, cap, ret, fmtRuns,
                  overflow >>

\* ------------------------------------------------------------------ scopes
\* slog_scope::scope / set_global_logger: the thread's current logger changes
SetScope(t, lg) ==
  /\ Idle(t)
  /\ scope[t] # lg
  /\ scope' = [scope EXCEPT ![t] = lg]
  /\ UNCHANGED << logVars, stack, call, cap, ret, fmtRuns, overflow >>

\* ------------------------------------------------------------------ frames
LogFrame(r) == [fn |-> "Logger.log", st |-> "call", rec |-> r, lv |-> <<>>,
                out |-> <<>>, sub |-> "none"]
DrainFrame(info, lv) == [fn |-> "StdLog.log", st |-> "call", rec |-> info,
                         lv |-> lv, out |-> <<>>, sub |-> "none"]

Top(t) == stack[t][Len(stack[t])]
SetTop(t, f) == [stack[t] EXCEPT ![Len(stack[t])] = f]

\* log::logger(): the backend, once LOG_STATE is INITIALIZED
logger == IF LOG_STATE = "INITIALIZED" THEN LOGGER ELSE "none"

\* log::__log refusing to re-enter the backend from inside Logger::log
log__log_guarded(t) ==
  IF \E i \in 1..Len(stack[t]) : stack[t][i].fn = "Logger.log"
  THEN "none" ELSE logger

\* log::__log: the backend the record of thread t is handed to; no level
\* is compared here
log__log(t) == logger

\* the `log!` macro: the record goes to log::__log when its level passes
\* max_log_level()
MacroPasses(lvl) == LogOrd(lvl) <= LogOrd(MAX_LOG_LEVEL_FILTER)

\* a `log` macro call (error! .. trace!) of the application
LogMacro(t, lvl, target) ==
  LET r == [ level |-> lvl, target |-> target,
             loc |-> [module |-> ModulePath, file |-> FilePath, line |-> LineNo],
             args |-> PlainArgs("hello") ]
      reach == MacroPasses(lvl) /\ log__log(t) = "Logger"
                 /\ enabled([level |-> lvl, target |-> target])
  IN /\ Idle(t)
     /\ call' = [call EXCEPT ![t] =
          << [level |-> lvl, threshold |-> MAX_LOG_LEVEL_FILTER,
              registered |-> (LOG_STATE = "INITIALIZED"), reached |-> reach] >>]
     /\ stack' = [stack EXCEPT ![t] = IF reach THEN <<LogFrame(r)>> ELSE <<>>]
     /\ cap' = [cap EXCEPT ![t] = <<>>]
     /\ ret' = [ret EXCEPT ![t] = <<>>]
     /\ fmtRuns' = [fmtRuns EXCEPT ![t] = 0]
     /\ UNCHANGED << logVars, scope, overflow >>

\* a slog event of the application on a logger that drains into StdLog
SlogCall(t, lg, level, tag, kv) ==
  LET info == [ level |-> level, tag |-> tag,
                loc |-> [ file |-> FilePath, line |-> LineNo, column |-> 3,
                          function |-> "f", module |-> ModulePath ],
                msg |-> PlainArgs("hello"), kv |-> kv ]
  IN /\ Idle(t)
     /\ Drain(lg) = "StdLog"
     /\ stack' = [stack EXCEPT ![t] = <<DrainFrame(info, LoggerValues(lg))>>]
     /\ call' = [call EXCEPT ![t] = <<>>]
     /\ cap' = [cap EXCEPT ![t] = <<>>]
     /\ ret' = [ret EXCEPT ![t] = <<>>]
     /\ fmtRuns' = [fmtRuns EXCEPT ![t] = 0]
     /\ UNCHANGED << logVars, scope, overflow >>

\* Logger::log: build the record, fetch the current logger, hand it over
LoggerLog(t) ==
  /\ ~overflow
  /\ stack[t] # <<>>
  /\ Top(t).fn = "Logger.log" /\ Top(t).st = "call"
  /\ LET s == LoggerRecord(Top(t).rec)
         lg == scope[t]
         sent == [Top(t) EXCEPT !.out = << [logger |-> lg, rec |-> s] >>]
     IN CASE Drain(lg) = "Discard" ->
               /\ stack' = [stack EXCEPT ![t] =
                    SetTop(t, [sent EXCEPT !.st = "ret", !.sub = "Ok"])]
               /\ UNCHANGED << cap, fmtRuns, overflow >>
          [] Drain(lg) = "Capture" ->
               \E n \in 0..MaxFormats, res \in {"Ok", "Err"} :
                 /\ stack' = [stack EXCEPT ![t] =
                      SetTop(t, [sent EXCEPT !.st = "ret", !.sub = res])]
                 /\ cap' = [cap EXCEPT ![t] =
                      << [ rec |-> s, formats |-> n,
                           text |-> IF n = 0 THEN "" ELSE Render(s.msg).text,
                           ok |-> (n = 0) \/ Render(s.msg).ok ] >>]
                 /\ fmtRuns' = [fmtRuns EXCEPT ![t] = @ + n * LazyFmtCalls(s.msg)]
                 /\ UNCHANGED overflow
          [] Drain(lg) = "StdLog" ->
               IF Len(stack[t]) >= MaxDepth
               THEN /\ overflow' = TRUE
                    /\ UNCHANGED << stack, cap, fmtRuns >>
               ELSE /\ stack' = [stack EXCEPT ![t] =
                         Append(SetTop(t, [sent EXCEPT !.st = "wait"]),
                                DrainFrame(s, LoggerValues(lg)))]
                    /\ UNCHANGED << cap, fmtRuns, overflow >>
  /\ UNCHANGED << logVars, scope, call, ret >>

\* StdLog::log: level, target, location, the lazy string, then log::__log,
\* which hands the record to the backend when one is installed
StdLogLog(t) ==
  /\ ~overflow
  /\ stack[t] # <<>>
  /\ Top(t).fn = "StdLog.log" /\ Top(t).st = "call"
  /\ LET r == StdLogRecord(Top(t).rec, Top(t).lv)
         sent == [Top(t) EXCEPT !.out = <<r>>]
     IN /\ fmtRuns' = [fmtRuns EXCEPT ![t] =
             @ + StdLogFormats(Top(t).rec, Top(t).lv) * LazyFmtCalls(r.args)]
        /\ IF log__log(t) = "Logger"
           THEN IF Len(stack[t]) >= MaxDepth
                THEN /\ overflow' = TRUE
                     /\ UNCHANGED stack
                ELSE /\ stack' = [stack EXCEPT ![t] =
                          Append(SetTop(t, [sent EXCEPT !.st = "wait"]), LogFrame(r))]
                     /\ UNCHANGED overflow
           ELSE /\ stack' = [stack EXCEPT ![t] =
                     SetTop(t, [sent EXCEPT !.st = "ret"])]
                /\ UNCHANGED overflow
  /\ UNCHANGED << logVars, scope, call, cap, ret >>

\* the value the frame returns with
FrameResult(f) ==
  IF f.fn = "Logger.log" THEN LoggerLogResult(f.sub)
  ELSE StdLogResult(f.rec, f.lv)

\* the innermost call returns to its caller, which has nothing left to do
\* but return as well
Return(t) ==
  /\ ~overflow
  /\ stack[t] # <<>>
  /\ Top(t).st = "ret"
  /\ LET n == Len(stack[t])
         val == FrameResult(Top(t))
         rest == SubSeq(stack[t], 1, n - 1)
     IN /\ ret' = [ret EXCEPT ![t] =
             << [fn |-> Top(t).fn, val |-> val, sub |-> Top(t).sub] >>]
        /\ stack' = [stack EXCEPT ![t] =
             IF n = 1 THEN <<>>
             ELSE [rest EXCEPT ![n - 1] = [@ EXCEPT !.st = "ret", !.sub = val]]]
  /\ UNCHANGED << logVars, scope, call, cap, fmtRuns, overflow >>

Next ==
  \/ \E t \in Threads : init(t)
  \/ \E t \in Threads, level \in RegLevels : init_with_level(t, level)
  \/ \E t \in Threads : SetMaxLevel(t)
  \/ \E t \in Threads : Install(t)
  \/ \E t \in LogThreads, lg \in Loggers : SetScope(t, lg)
  \/ \E t \in LogThreads, lvl \in LogLevels, target \in Targets : LogMacro(t, lvl, target)
  \/ \E t \in LogThreads, lg \in Loggers, level \in SlogLevels, tag \in Tags,
        kv \in CallSiteKVs : SlogCall(t, lg, level, tag, kv)
  \/ \E t \in LogThreads : LoggerLog(t)
  \/ \E t \in LogThreads : StdLogLog(t)
  \/ \E t \in LogThreads : Return(t)

Spec == Init /\ [][Next]_vars

\* a call chain runs on its thread until it returns or the stack is exhausted
FairSpec ==
  /\ Spec
  /\ \A t \in LogThreads :
       WF_vars(LoggerLog(t)) /\ WF_vars(StdLogLog(t)) /\ WF_vars(Return(t))

\* ------------------------------------------------------------------ claims
Calls == 1..Len(regCalls)
OkCalls == { i \in Calls : regCalls[i].res = "Ok" }
Registered == LOG_STATE = "INITIALIZED"

\* C1: registration is a singleton.  The first init / init_with_level call
\* is the one that succeeds, every later call returns the already-registered
\* error, and once registered the installed backend and the threshold are
\* those of the first call, whatever thresholds later calls passed.
C1_Singleton ==
  /\ \A i \in Calls : i = 1 => regCalls[i].res \in {"pending", "Ok"}
  /\ \A i \in Calls : i > 1 => regCalls[i].res = "Err"
  /\ Registered <=> (regCalls # <<>> /\ regCalls[1].res = "Ok")
  /\ Registered => LOGGER = "Logger" /\ MAX_LOG_LEVEL_FILTER = regCalls[1].level
  /\ ~Registered => LOGGER = "none"

\* a later call with another threshold has failed after the first succeeded
C1_Witness ==
  /\ Len(regCalls) >= 2
  /\ regCalls[1].res = "Ok" /\ regCalls[2].res = "Err"
  /\ regCalls[2].level # regCalls[1].level

\* C2: under every interleaving of concurrent register calls at most one is
\* let into the initialization, the others fail, the backend slot is written
\* exactly once, and the threshold in force is the winner's, never a loser's.
C2_OneWinner ==
  /\ Cardinality({ i \in Calls : regCalls[i].res # "Err" }) <= 1
  /\ loggerWrites = Cardinality(OkCalls)
  /\ Cardinality({ t \in Threads : pc[t] # "idle" }) <= 1
  /\ \A i \in Calls :
       /\ regCalls[i].res = "Ok" => MAX_LOG_LEVEL_FILTER = regCalls[i].level
       /\ regCalls[i].res = "pending" =>
            \E t \in Threads :
              /\ running[t] = i
              /\ MAX_LOG_LEVEL_FILTER =
                   IF pc[t] = "install" THEN regCalls[i].level ELSE "Off"
  /\ (regCalls # <<>> /\ \A t \in Threads : pc[t] = "idle") =>
       Cardinality(OkCalls) = 1

\* a call of another thread has failed while the winner is still inside
\* set_logger, its threshold set and the backend not yet stored
C2_Witness ==
  /\ Len(regCalls) >= 2
  /\ regCalls[1].res = "pending"
  /\ \E t \in Threads : running[t] = 1 /\ pc[t] = "install"
  /\ regCalls[2].res = "Err"
  /\ regCalls[2].level # regCalls[1].level

Frames(t) == 1..Len(stack[t])
AcceptFrames(t) == { i \in Frames(t) : stack[t][i].fn = "Logger.log" }
ProcessFrames(t) == { i \in Frames(t) : stack[t][i].fn = "StdLog.log" }

\* C3: once registered, no record whose level is below the threshold is
\* inside the backend's Logger::log, every `log` macro call at or above the
\* threshold reaches Logger::log, and enabled is true of every metadata.
C3_ThresholdFilters ==
  /\ \A t \in LogThreads : \A i \in AcceptFrames(t) :
       LogOrd(stack[t][i].rec.level) <= LogOrd(MAX_LOG_LEVEL_FILTER)
  /\ \A t \in LogThreads :
       (call[t] # <<>> /\ call[t][1].registered) =>
         (call[t][1].reached <=>
            LogOrd(call[t][1].level) <= LogOrd(call[t][1].threshold))
  /\ \A l \in LogLevels, tg \in Targets : enabled([level |-> l, target |-> tg])

\* C4: every record that has entered Logger::log and passed its body has
\* submitted exactly one slog event, to the logger the scope reports, and
\* the event carries the mapped level, the same message arguments, no
\* key-value pairs, the record's target as tag, the record's file, line and
\* module, column 0 and an empty function name; the logger's drain got it.
C4_BasicToStruct ==
  \A t \in LogThreads : \A i \in AcceptFrames(t) :
    LET f == stack[t][i]
    IN /\ f.st = "call" => f.out = <<>>
       /\ f.st # "call" =>
            /\ Len(f.out) = 1
            /\ f.out[1].logger = scope[t]
            /\ f.out[1].rec.level =
                 (IF f.rec.level = "Warn" THEN "Warning" ELSE f.rec.level)
            /\ f.out[1].rec.msg = f.rec.args
            /\ f.out[1].rec.kv = <<>>
            /\ f.out[1].rec.tag = f.rec.target
            /\ f.out[1].rec.loc =
                 [ file |-> f.rec.loc.file, line |-> f.rec.loc.line, column |-> 0,
                   function |-> "", module |-> f.rec.loc.module ]
            /\ Drain(scope[t]) = "Capture" =>
                 cap[t] # <<>> /\ cap[t][1].rec = f.out[1].rec
            /\ Drain(scope[t]) = "StdLog" =>
                 /\ i + 1 \in ProcessFrames(t)
                 /\ stack[t][i + 1].rec = f.out[1].rec

\* a warn! with target "svc" has gone through Logger::log into the capture
C4_Witness ==
  \E t \in LogThreads :
    /\ Len(stack[t]) = 1 /\ stack[t][1].fn = "Logger.log" /\ stack[t][1].st = "ret"
    /\ stack[t][1].rec.level = "Warn" /\ stack[t][1].rec.target = "svc"
    /\ cap[t] # <<>> /\ cap[t][1].rec.level = "Warning"

\* C5: every event that has passed the body of StdLog::log has emitted
\* exactly one log record, at the reverse-mapped level, with the event's
\* module, file and line as location and with the tag as target, or the
\* module path when the tag is empty.
C5_StructToBasic ==
  \A t \in LogThreads : \A i \in ProcessFrames(t) :
    LET f == stack[t][i]
    IN /\ f.st = "call" => f.out = <<>>
       /\ f.st # "call" =>
            /\ Len(f.out) = 1
            /\ f.out[1].level =
                 (CASE f.rec.level \in {"Critical", "Error"} -> "Error"
                    [] f.rec.level = "Warning" -> "Warn"
                    [] OTHER -> f.rec.level)
            /\ f.out[1].loc = [ module |-> f.rec.loc.module,
                                file |-> f.rec.loc.file, line |-> f.rec.loc.line ]
            /\ f.rec.tag # "" => f.out[1].target = f.rec.tag
            /\ f.rec.tag = "" => f.out[1].target = f.rec.loc.module
            /\ (f.rec.tag = "svc" /\ f.rec.loc.module = "pkg::mod") =>
                 f.out[1].target = "svc"
            /\ (f.rec.tag = "" /\ f.rec.loc.module = "pkg::mod") =>
                 f.out[1].target = "pkg::mod"
            /\ i + 1 \in AcceptFrames(t) => stack[t][i + 1].rec = f.out[1]

\* an event with an empty tag has been emitted under its module path
C5_Witness ==
  \E t \in LogThreads :
    /\ stack[t] # <<>> /\ stack[t][1].fn = "StdLog.log" /\ stack[t][1].st # "call"
    /\ stack[t][1].rec.tag = "" /\ stack[t][1].out[1].target = "pkg::mod"
    /\ stack[t][1].rec.level = "Critical"

\* C6: both level mappings are total and keep the order of the levels, a
\* log level comes back unchanged from log -> slog -> log, and a slog level
\* comes back unchanged from slog -> log -> slog except Critical, which
\* comes back as Error; the records travelling round the adapter show it.
C6_LevelMap ==
  /\ \A l \in LogLevels : log_to_slog_level(l) \in SlogLevels
  /\ \A s \in SlogLevels : slog_to_log_level(s) \in LogLevels
  /\ \A a, b \in LogLevels :
       LogOrd(a) < LogOrd(b) =>
         SlogOrd(log_to_slog_level(a)) < SlogOrd(log_to_slog_level(b))
  /\ \A a, b \in SlogLevels :
       SlogOrd(a) <= SlogOrd(b) =>
         LogOrd(slog_to_log_level(a)) <= LogOrd(slog_to_log_level(b))
  /\ \A l \in LogLevels : slog_to_log_level(log_to_slog_level(l)) = l
  /\ \A s \in SlogLevels \ {"Critical"} :
       log_to_slog_level(slog_to_log_level(s)) = s
  /\ log_to_slog_level(slog_to_log_level("Critical")) = "Error"
  /\ \A t \in LogThreads : \A i \in Frames(t) :
       i + 2 \in Frames(t) =>
         stack[t][i + 2].rec.level =
           (IF stack[t][i].rec.level = "Critical" THEN "Error"
            ELSE stack[t][i].rec.level)

\* a Critical event has gone through StdLog and Logger and is back in
\* StdLog as an Error event
C6_Witness ==
  \E t \in LogThreads :
    /\ Len(stack[t]) >= 3
    /\ stack[t][1].fn = "StdLog.log" /\ stack[t][1].rec.level = "Critical"
    /\ stack[t][3].fn = "StdLog.log" /\ stack[t][3].rec.level = "Error"

\* the `, key: value` segments of a run of pairs, in the order given
RECURSIVE Segments(_)
Segments(pairs) ==
  IF pairs = <<>> THEN ""
  ELSE ", " \o Head(pairs).k \o ": " \o Head(pairs).v \o Segments(Tail(pairs))

AllOk(pairs) == \A i \in 1..Len(pairs) : pairs[i].ok

\* the captures whose message is the LazyLogString of one StdLog event and
\* which the drain formatted
Flattened(t) ==
  /\ cap[t] # <<>>
  /\ cap[t][1].formats >= 1
  /\ Len(cap[t][1].rec.msg.layers) = 1

C8_NoPropagation ==
  \A t \in LogThreads :
    ret[t] # <<>> =>
      /\ ret[t][1].fn = "StdLog.log" => ret[t][1].val = "Ok"
      /\ ret[t][1].fn = "Logger.log" => ret[t][1].val = "unit"

\* StdLog::log has returned Ok for an event whose flattening failed on a
\* pair
C8_Witness ==
  \E t \in LogThreads :
    /\ stack[t] = <<>> /\ ret[t] # <<>>
    /\ ret[t][1].fn = "StdLog.log" /\ ret[t][1].val = "Ok"
    /\ ret[t][1].sub = "unit"
    /\ cap[t] # <<>> /\ cap[t][1].formats >= 1 /\ ~cap[t][1].ok

\* C9 as stated: nothing is serialized unless the sink formats the record,
\* and LazyLogString::fmt runs at most once for an event.
C9_AtMostOnce ==
  \A t \in LogThreads :
    /\ (cap[t] = <<>> \/ cap[t][1].formats = 0) => fmtRuns[t] = 0
    /\ fmtRuns[t] <= 1

\* C9, amended: the key-value groups of an event are serialized only when
\* the sink formats the record, once for every time it does: never before
\* the record is delivered, not at all when the sink formats nothing, and
\* again on every further formatting, since nothing is cached.
C9_Lazy ==
  \A t \in LogThreads :
    fmtRuns[t] =
      IF cap[t] = <<>> THEN 0
      ELSE cap[t][1].formats * Len(cap[t][1].rec.msg.layers)

\* the sink formatted the record of one StdLog event twice
C9_Witness ==
  \E t \in LogThreads :
    /\ cap[t] # <<>> /\ cap[t][1].formats = 2
    /\ Len(cap[t][1].rec.msg.layers) = 1
    /\ fmtRuns[t] = 2

\* the backend is installed and the thread's current logger drains into StdLog
Cycle(t) == logger = "Logger" /\ Drain(scope[t]) = "StdLog"
CycleEntered(t) == Cycle(t) /\ AcceptFrames(t) # {}

\* C10: with the backend registered and the current logger draining into
\* StdLog, a call that has entered Logger::log never returns: no frame of
\* the chain ever returns and the chain grows until the stack is exhausted.
\* With a current logger that does not drain into StdLog, every call chain
\* runs to its return on the calling thread.
C10_Recursion ==
  /\ [][ \A t \in LogThreads :
           CycleEntered(t) =>
             Len(stack'[t]) >= Len(stack[t]) /\ ret'[t] = ret[t] ]_vars
  /\ \A t \in LogThreads : CycleEntered(t) ~> overflow
  /\ \A t \in LogThreads :
       (stack[t] # <<>> /\ Drain(scope[t]) # "StdLog") ~>
         (stack[t] = <<>> /\ ret[t] # <<>> /\ ~overflow)

\* one `log` macro call has exhausted the stack
C10_Witness ==
  \E t \in LogThreads :
    /\ overflow
    /\ call[t] # <<>> /\ call[t][1].reached
    /\ Len(stack[t]) = MaxDepth

====
